---- MODULE Spec2Model ----
(***************************************************************************)
(* Lifecycle of Session and MergeConflict handles of the RecallrAI Node    *)
(* SDK and the error mapping of its HTTP client.                           *)
(*                                                                         *)
(* Every network-calling operation of a handle is an async function with   *)
(* one suspension point (the await on the HTTP client).  It is modelled by *)
(* two actions: <Op>Call runs the code before the await and puts a request *)
(* in flight, <Op>Return runs the code after the await on the transport's  *)
(* outcome.  Between the two the remote service (or the network) produces  *)
(* the outcome.  Strings that the code searches with includes() are        *)
(* sequences of words, and includes() is contiguous sub-sequence search.   *)
(***************************************************************************)
EXTENDS Integers, Sequences, FiniteSets, TLC

VARIABLES
    client,       \* which HTTPClient implementation the handles were built on
    target,       \* what the caller exercises in this run
    session,      \* Session handle: status, createdAt, metadata
    srvSession,   \* the service's record of that session
    srvMessages,  \* the service's message list of that session
    conflict,     \* MergeConflict handle: status, resolvedAt, resolutionData
    srvConflict,  \* the service's record of that conflict
    inflight,     \* requests awaiting their continuation
    calls,        \* number of operations invoked so far
    faults,       \* number of injected service/network faults so far
    requests,     \* number of transport requests issued so far
    last,         \* the operation that completed last, and how
    script,       \* progress of the end-to-end session scenario
    issued,       \* messages passed to addMessage, in the order of the calls
    ordered,      \* every addMessage so far was awaited alone and succeeded
    fetched,      \* value returned by the last successful getMessages/getContext
    warnings,     \* what console.warn has been called with
    snapshots,    \* (status, createdAt, metadata) of the session snapshots sent
    user,         \* User handle: userId, metadata
    srvUsers      \* the service's users: id -> metadata

vars == <<client, target, session, srvSession, srvMessages, conflict, srvConflict,
          inflight, calls, faults, requests, last, script, issued, ordered,
          fetched, warnings, snapshots, user, srvUsers>>

(***************************************************************************)
(* Bounds of the model.                                                    *)
(***************************************************************************)
MaxCalls == 4        \* operations invoked in one run
MaxOverlapped == 2   \* of these, the first so many may overlap others
MaxFaults == 1       \* injected service or network faults in one run

(***************************************************************************)
(* Identifiers and inputs.                                                 *)
(***************************************************************************)
UserId == "u1"
SessionId == "s1"
ConflictId == "c1"

Clients == {"request", "handleError"}

MessageRole == {"user", "assistant"}
MessageInputs == {[role |-> "user", content |-> "hello"],
                  [role |-> "assistant", content |-> "hi"]}
MetadataInputs == {"meta1"}

SessionStatus == {"pending", "processing", "processed", "failed",
                  "insufficient_balance"}
MergeConflictStatus == {"PENDING", "IN_QUEUE", "RESOLVING", "RESOLVED", "FAILED"}

(***************************************************************************)
(* The error taxonomy exported by errors/index.ts, and the two untyped     *)
(* errors that can escape the HTTP clients.                                *)
(***************************************************************************)
Taxonomy ==
    {"RecallrAIError", "AuthenticationError", "NetworkError", "TimeoutError",
     "ConnectionError", "ServerError", "InternalServerError", "RateLimitError",
     "SessionError", "InvalidSessionStateError", "SessionNotFoundError",
     "UserError", "UserNotFoundError", "UserAlreadyExistsError",
     "InvalidCategoriesError", "ValidationError", "MergeConflictError",
     "MergeConflictNotFoundError", "MergeConflictAlreadyResolvedError",
     "MergeConflictInvalidQuestionsError", "MergeConflictMissingAnswersError",
     "MergeConflictInvalidAnswerError"}

Untyped == {"AxiosError", "Error"}

(***************************************************************************)
(* String.prototype.includes on word sequences.                            *)
(***************************************************************************)
Includes(hay, needle) ==
    \E i \in 0..(Len(hay) - Len(needle)) :
        SubSeq(hay, i + 1, i + Len(needle)) = needle

\* new Date(x): the wire timestamp becomes a Date object
ParseDate(t) == [date |-> t]

NoBody == [empty |-> TRUE]
NoDetail == << >>

(***************************************************************************)
(* What the transport produced for a request: an HTTP exchange with a      *)
(* status, a detail message and a body, or a failure of the exchange.      *)
(***************************************************************************)
HttpOutcome(status, detail, body) ==
    [kind |-> "http", status |-> status, detail |-> detail, body |-> body]

FailOutcome(kind) ==
    [kind |-> kind, status |-> 0, detail |-> NoDetail, body |-> NoBody]

(***************************************************************************)
(* axios with the configuration of axios.create: no validateStatus is      *)
(* given, so a status outside 200..299 rejects with an AxiosError carrying *)
(* the response; a timeout rejects with code ECONNABORTED, a refused       *)
(* connection with ECONNREFUSED, any other network failure with            *)
(* ERR_NETWORK and no response.                                            *)
(***************************************************************************)
AxiosRequest(out) ==
    IF out.kind = "http" /\ out.status >= 200 /\ out.status < 300
    THEN [resolved |-> TRUE, status |-> out.status, detail |-> out.detail,
          body |-> out.body, code |-> "", message |-> << >>,
          hasResponse |-> TRUE]
    ELSE IF out.kind = "http"
    THEN [resolved |-> FALSE, status |-> out.status, detail |-> out.detail,
          body |-> out.body,
          code |-> IF out.status < 500 THEN "ERR_BAD_REQUEST"
                                       ELSE "ERR_BAD_RESPONSE",
          message |-> <<"Request", "failed", "with", "status", "code">>,
          hasResponse |-> TRUE]
    ELSE IF out.kind = "timeout"
    THEN [resolved |-> FALSE, status |-> 0, detail |-> NoDetail,
          body |-> NoBody, code |-> "ECONNABORTED",
          message |-> <<"timeout", "of", "30000ms", "exceeded">>,
          hasResponse |-> FALSE]
    ELSE IF out.kind = "refused"
    THEN [resolved |-> FALSE, status |-> 0, detail |-> NoDetail,
          body |-> NoBody, code |-> "ECONNREFUSED",
          message |-> <<"connect", "ECONNREFUSED">>,
          hasResponse |-> FALSE]
    ELSE [resolved |-> FALSE, status |-> 0, detail |-> NoDetail,
          body |-> NoBody, code |-> "ERR_NETWORK",
          message |-> <<"Network", "Error">>,
          hasResponse |-> FALSE]

(***************************************************************************)
(* Result of an HTTPClient call: a response handed to the caller, or a     *)
(* thrown error of class cls.                                              *)
(***************************************************************************)
Response(a) ==
    [ok |-> TRUE, status |-> a.status, detail |-> a.detail, body |-> a.body,
     cls |-> "", httpStatus |-> 0]

Thrown(cls, httpStatus, detail) ==
    [ok |-> FALSE, status |-> httpStatus, detail |-> detail, body |-> NoBody,
     cls |-> cls, httpStatus |-> httpStatus]

\* faulty variant of request: tests for the code ETIMEDOUT only, so an axios
\* timeout (ECONNABORTED) falls through to `throw error`
RequestTimeoutUnmapped(out) ==
    LET a == AxiosRequest(out) IN
    IF a.resolved
    THEN IF a.status = 422 THEN Thrown("ValidationError", a.status, a.detail)
         ELSE IF a.status = 500
              THEN Thrown("InternalServerError", a.status, a.detail)
         ELSE IF a.status = 401
              THEN Thrown("AuthenticationError", a.status, a.detail)
         ELSE Response(a)
    ELSE IF a.code = "ETIMEDOUT"
         THEN Thrown("TimeoutError", 0, a.message)
    ELSE IF a.code = "ECONNREFUSED" \/ a.code = "ENOTFOUND"
         THEN Thrown("ConnectionError", 0, a.message)
    ELSE IF a.hasResponse /\ a.status = 422
         THEN Thrown("ValidationError", a.status, a.detail)
    ELSE IF a.hasResponse /\ a.status = 500
         THEN Thrown("InternalServerError", a.status, a.detail)
    ELSE IF a.hasResponse /\ a.status = 401
         THEN Thrown("AuthenticationError", a.status, a.detail)
    ELSE Thrown("AxiosError", a.status, a.message)

(***************************************************************************)
(* HTTPClient.request of utils/http-client.ts.                             *)
(***************************************************************************)
Request(out) ==
    LET a == AxiosRequest(out) IN
    IF a.resolved
    THEN IF a.status = 422 THEN Thrown("ValidationError", a.status, a.detail)
         ELSE IF a.status = 500
              THEN Thrown("InternalServerError", a.status, a.detail)
         ELSE IF a.status = 401
              THEN Thrown("AuthenticationError", a.status, a.detail)
         ELSE Response(a)
    ELSE IF a.code = "ECONNABORTED" \/ Includes(a.message, <<"timeout">>)
         THEN Thrown("TimeoutError", 0, a.message)
    ELSE IF a.code = "ECONNREFUSED" \/ a.code = "ENOTFOUND"
         THEN Thrown("ConnectionError", 0, a.message)
    ELSE IF a.hasResponse /\ a.status = 422
         THEN Thrown("ValidationError", a.status, a.detail)
    ELSE IF a.hasResponse /\ a.status = 500
         THEN Thrown("InternalServerError", a.status, a.detail)
    ELSE IF a.hasResponse /\ a.status = 401
         THEN Thrown("AuthenticationError", a.status, a.detail)
    ELSE Thrown("AxiosError", a.status, a.message)

(***************************************************************************)
(* HTTPClient.get/post/put with handleError (the options-object client).   *)
(***************************************************************************)
HandleError(out) ==
    LET a == AxiosRequest(out) IN
    IF a.resolved THEN Response(a)
    ELSE IF a.code = "ECONNABORTED"
         THEN Thrown("TimeoutError", 408, <<"Request", "timed", "out">>)
    ELSE IF a.code = "ENOTFOUND" \/ a.code = "ECONNREFUSED"
         THEN Thrown("ConnectionError", 503, a.message)
    ELSE IF ~a.hasResponse
         THEN Thrown("ConnectionError", 503, a.message)
    ELSE IF a.status = 422 THEN Thrown("ValidationError", a.status, a.detail)
    ELSE IF a.status = 429 THEN Thrown("RateLimitError", a.status, a.detail)
    ELSE IF a.status = 500
         THEN Thrown("InternalServerError", a.status, a.detail)
    ELSE IF a.status = 401 THEN Thrown("AuthenticationError", 401, a.detail)
    ELSE Thrown("Error", a.status, a.detail)

\* the HTTP client the handle holds
Http(out) == IF client = "request" THEN Request(out) ELSE HandleError(out)


(***************************************************************************)
(* Requests in flight.  st is "sent" until the service or the network has  *)
(* produced the outcome out.  overlap records that another operation on    *)
(* the handle was pending at some time between the call and its return,    *)
(* srvAt the status the service held for the entity when it handled the    *)
(* request.                                                                *)
(***************************************************************************)
SessionOps == {"addMessage", "process", "refresh", "update"}
ConflictOps == {"resolve", "conflictRefresh"}
ReadOps == {"getMessages", "getContext"}
\* the Session class without a cached status: its addMessage, and the
\* getStatus request it issues from its catch block
LegacyOps == {"legacyAddMessage"}
FollowUpOps == {"getStatus"}
\* RecallrAI.createUser and User.update
UserOps == {"createUser", "userUpdate"}

\* the two handles share no state (the HTTP client keeps none), so a run
\* drives one of them
TargetOf(op) ==
    IF op \in SessionOps \cup ReadOps \cup LegacyOps THEN "session"
    ELSE "conflict"

\* a run exercises the state-changing operations of one handle, or
\* ("messages") the message list of a session: addMessage and the two reads
Exercises(op) ==
    IF target = "messages" THEN op \in {"addMessage"} \cup ReadOps
    ELSE IF target = "snapshots" THEN op \in {"update", "refresh"}
    ELSE IF target = "user" THEN op \in UserOps \cup SessionOps
    ELSE IF target = "legacy" THEN op \in LegacyOps
    ELSE op \notin ReadOps \cup LegacyOps \cup UserOps /\ target = TargetOf(op)

\* faulty variant of the path: a Session reads the id of its owning User
PathUserIdOfOwner(op) ==
    IF op \in UserOps \cup SessionOps \cup ReadOps \cup LegacyOps
    THEN user.userId
    ELSE conflict.userId

\* the user id in the path of a request: User operations put this.userId,
\* a Session the _userId it was constructed with, a MergeConflict its userId
PathUserId(op) ==
    IF op \in UserOps THEN user.userId
    ELSE IF op \in SessionOps \cup ReadOps \cup LegacyOps THEN session.userId
    ELSE conflict.userId

NewRequest(op, arg) ==
    [id |-> calls + 1, op |-> op, arg |-> arg, userId |-> PathUserId(op),
     st |-> "sent",
     out |-> FailOutcome("none"), overlap |-> inflight # {},
     srvAt |-> "none"]

CanCall ==
    /\ calls < MaxCalls
    /\ inflight # {} => calls < MaxOverlapped

\* the code before the await: one transport request is issued
Send(op, arg) ==
    /\ CanCall
    /\ Exercises(op)
    /\ inflight' = {[q EXCEPT !.overlap = TRUE] : q \in inflight}
                     \cup {NewRequest(op, arg)}
    /\ calls' = calls + 1
    /\ requests' = requests + 1

Answered(r, out, at) == [r EXCEPT !.st = "done", !.out = out, !.srvAt = at]

\* what the caller observes when an operation completes
Completed(op, result) == [op |-> op, result |-> result]

(***************************************************************************)
(* Answers that do not come from the entity's own handling: other HTTP     *)
(* statuses (credentials revoked, user or entity deleted, rate limit,      *)
(* server errors, a success without content) and network failures.         *)
(***************************************************************************)
FaultResponses ==
    {<<204, NoDetail>>,
     <<401, <<"Invalid", "API", "key">>>>,
     <<403, <<"Forbidden">>>>,
     <<404, <<"User", UserId, "not", "found">>>>,
     <<404, <<"Session", SessionId, "not", "found">>>>,
     <<404, <<"Nothing", "found", "for", UserId>>>>,
     <<404, NoDetail>>,
     <<409, <<"Conflict">>>>,
     <<422, <<"Invalid", "questions", "provided">>>>,
     <<429, <<"Too", "many", "requests">>>>,
     <<500, <<"Internal", "server", "error">>>>,
     <<503, <<"Service", "unavailable">>>>}

NetworkFailures == {"timeout", "refused", "network"}

FaultOutcomes ==
    {HttpOutcome(f[1], f[2], NoBody) : f \in FaultResponses}
        \cup {FailOutcome(k) : k \in NetworkFailures}

\* what can arrive for a pending request: the service's answer once it has
\* handled the request, or a fault; a timeout can also hit after the
\* service has acted
Arrivals(r) ==
    (IF r.st = "done" THEN {r.out} ELSE {})
        \cup (IF faults >= MaxFaults THEN {}
              ELSE IF r.st = "sent" THEN FaultOutcomes
              ELSE {FailOutcome("timeout")})

IsFault(r, out) == r.st = "sent" \/ out # r.out

FaultsAfter(r, out) == IF IsFault(r, out) THEN faults + 1 ELSE faults

(***************************************************************************)
(* 404 disambiguation shared by every Session and MergeConflict operation. *)
(***************************************************************************)
NotFound(detail, userId, specific) ==
    IF Includes(detail, <<"User", userId, "not", "found">>)
    THEN "UserNotFoundError"
    ELSE specific

(***************************************************************************)
(* Session (the response-status variant).                                  *)
(***************************************************************************)
\* the snapshot the service sends for a session
SessionBody(s) ==
    [session_id |-> SessionId, status |-> s.status,
     created_at |-> s.created_at, metadata |-> s.metadata]

parseSessionResponse(data) ==
    [sessionId |-> data.session_id, status |-> data.status,
     createdAt |-> ParseDate(data.created_at), metadata |-> data.metadata]

\* faulty variant of addMessage: an error thrown by the client is swallowed
AddMessageResultSwallows(h) ==
    IF ~h.ok THEN "ok"
    ELSE IF h.status = 404
         THEN NotFound(h.detail, session.userId, "SessionNotFoundError")
    ELSE IF h.status = 400 THEN "InvalidSessionStateError"
    ELSE IF h.status # 200 THEN "RecallrAIError"
    ELSE "ok"

\* result of addMessage on the HTTP client's result h
AddMessageResult(h) ==
    IF ~h.ok THEN h.cls
    ELSE IF h.status = 404
         THEN NotFound(h.detail, session.userId, "SessionNotFoundError")
    ELSE IF h.status = 400 THEN "InvalidSessionStateError"
    ELSE IF h.status # 200 THEN "RecallrAIError"
    ELSE "ok"

ProcessResult(h) ==
    IF ~h.ok THEN h.cls
    ELSE IF h.status = 404
         THEN NotFound(h.detail, session.userId, "SessionNotFoundError")
    ELSE IF h.status = 400 THEN "InvalidSessionStateError"
    ELSE IF h.status # 200 THEN "RecallrAIError"
    ELSE "ok"

\* faulty variant of update, refresh: refused on a handle that is not pending
SnapshotResultChecksStatus(h) ==
    IF session.status # "pending" THEN "InvalidSessionStateError"
    ELSE IF ~h.ok THEN h.cls
    ELSE IF h.status = 404
         THEN NotFound(h.detail, session.userId, "SessionNotFoundError")
    ELSE IF h.status # 200 THEN "RecallrAIError"
    ELSE "ok"

\* result of update, refresh: no 400 branch
SnapshotResult(h) ==
    IF ~h.ok THEN h.cls
    ELSE IF h.status = 404
         THEN NotFound(h.detail, session.userId, "SessionNotFoundError")
    ELSE IF h.status # 200 THEN "RecallrAIError"
    ELSE "ok"

\* faulty variant of refresh: this.status is not assigned
RefreshApplyKeepsStatus(s, data) ==
    [s EXCEPT !.createdAt = parseSessionResponse(data).createdAt,
              !.metadata = parseSessionResponse(data).metadata]

\* refresh: the three public fields are overwritten from the response
RefreshApply(s, data) ==
    LET sessionData == parseSessionResponse(data) IN
    [s EXCEPT !.status = sessionData.status,
              !.createdAt = sessionData.createdAt,
              !.metadata = sessionData.metadata]

\* faulty variant of update: the handle's status is reset along with metadata
UpdateApplyResetsStatus(s, data) ==
    [s EXCEPT !.status = "pending",
              !.metadata = parseSessionResponse(data).metadata]

\* update: only metadata is taken from the response
UpdateApply(s, data) ==
    LET updatedData == parseSessionResponse(data) IN
    [s EXCEPT !.metadata = updatedData.metadata]

(***************************************************************************)
(* The end-to-end scenario: on a new session, with every call awaited      *)
(* before the next and answered by the service itself,                     *)
(*   addMessage(USER, "hello"); process(); refresh(); addMessage(...).     *)
(* script counts the steps taken so far, -1 once the run has left the      *)
(* scenario.  The session is still pending when the service handles the    *)
(* first two calls, and the service has finished processing when it        *)
(* handles the refresh.                                                    *)
(***************************************************************************)
Hello == [role |-> "user", content |-> "hello"]

ScriptNext(r, out) ==
    IF script < 0 \/ script >= 4 \/ r.overlap \/ IsFault(r, out)
    THEN -1
    ELSE IF script = 0 /\ r.op = "addMessage" /\ r.arg = Hello
            /\ r.srvAt = "pending" THEN 1
    ELSE IF script = 1 /\ r.op = "process" /\ r.srvAt = "pending" THEN 2
    ELSE IF script = 2 /\ r.op = "refresh" /\ r.srvAt = "processed" THEN 3
    ELSE IF script = 3 /\ r.op = "addMessage" THEN 4
    ELSE -1

SessionFrame == UNCHANGED <<client, target, user, srvUsers, snapshots, srvSession, srvMessages, conflict,
                            srvConflict, fetched, warnings>>

\* the two history variables are kept in runs that read the messages back
IssuedAfterCall(msg) == IF target = "messages" THEN Append(issued, msg) ELSE issued

OrderedAfterCall == IF target = "messages" THEN ordered /\ inflight = {} ELSE ordered

OrderedAfterReturn(r, result) ==
    IF target = "messages" THEN ordered /\ result = "ok" /\ ~r.overlap
    ELSE ordered

AddMessageCall(role, content) ==
    /\ Send("addMessage", [role |-> role, content |-> content])
    /\ issued' = IssuedAfterCall([role |-> role, content |-> content])
    /\ ordered' = OrderedAfterCall
    /\ UNCHANGED <<session, last, script, faults>>
    /\ SessionFrame

AddMessageReturn(r, out) ==
    /\ out \in Arrivals(r)
    /\ r.op = "addMessage"
    /\ inflight' = inflight \ {r}
    /\ last' = Completed(r.op, AddMessageResult(Http(out)))
    /\ ordered' = OrderedAfterReturn(r, AddMessageResult(Http(out)))
    /\ script' = ScriptNext(r, out)
    /\ faults' = FaultsAfter(r, out)
    /\ UNCHANGED <<session, calls, requests, issued>>
    /\ SessionFrame

\* faulty variant of process: the handle is marked processing on success
ProcessApplySetsProcessing(s) == [s EXCEPT !.status = "processing"]

\* process: a successful call returns without assigning any field
ProcessApply(s) == s

ProcessCall ==
    /\ Send("process", NoBody)
    /\ UNCHANGED <<session, last, script, faults, issued, ordered>>
    /\ SessionFrame

ProcessReturn(r, out) ==
    /\ out \in Arrivals(r)
    /\ r.op = "process"
    /\ inflight' = inflight \ {r}
    /\ last' = Completed(r.op, ProcessResult(Http(out)))
    /\ session' = IF ProcessResult(Http(out)) = "ok" THEN ProcessApply(session)
                                                     ELSE session
    /\ script' = ScriptNext(r, out)
    /\ faults' = FaultsAfter(r, out)
    /\ UNCHANGED <<calls, requests, issued, ordered>>
    /\ SessionFrame

UpdateCall(newMetadata) ==
    /\ Send("update", newMetadata)
    /\ UNCHANGED <<session, last, script, faults, issued, ordered>>
    /\ SessionFrame

UpdateReturn(r, out) ==
    /\ out \in Arrivals(r)
    /\ r.op = "update"
    /\ inflight' = inflight \ {r}
    /\ LET h == Http(out)
           result == SnapshotResult(h) IN
        /\ last' = Completed(r.op, result)
        /\ session' = IF result = "ok" THEN UpdateApply(session, h.body)
                                       ELSE session
    /\ script' = ScriptNext(r, out)
    /\ faults' = FaultsAfter(r, out)
    /\ UNCHANGED <<calls, requests, issued, ordered>>
    /\ SessionFrame

RefreshCall ==
    /\ Send("refresh", NoBody)
    /\ UNCHANGED <<session, last, script, faults, issued, ordered>>
    /\ SessionFrame

RefreshReturn(r, out) ==
    /\ out \in Arrivals(r)
    /\ r.op = "refresh"
    /\ inflight' = inflight \ {r}
    /\ LET h == Http(out)
           result == SnapshotResult(h) IN
        /\ last' = Completed(r.op, result)
        /\ session' = IF result = "ok" THEN RefreshApply(session, h.body)
                                       ELSE session
    /\ script' = ScriptNext(r, out)
    /\ faults' = FaultsAfter(r, out)
    /\ UNCHANGED <<calls, requests, issued, ordered>>
    /\ SessionFrame

(***************************************************************************)
(* The two reads of a Session: getMessages(offset, limit) and getContext.  *)
(***************************************************************************)
DefaultLimit == 50

\* arguments a caller passes to getMessages: the defaults, and a one-item
\* page that starts at the second message
PageInputs == {[offset |-> 0, limit |-> DefaultLimit],
               [offset |-> 1, limit |-> 1]}

\* query parameters of getContext called without options
ContextParams ==
    [recall_strategy |-> "balanced", include_system_prompt |-> TRUE]

\* faulty variant of the read: the cached status decides before the response
ReadResultChecksStatus(h) ==
    IF session.status \in {"processed", "processing"}
    THEN "InvalidSessionStateError"
    ELSE IF ~h.ok THEN h.cls
    ELSE IF h.status = 404
         THEN NotFound(h.detail, session.userId, "SessionNotFoundError")
    ELSE IF h.status # 200 THEN "RecallrAIError"
    ELSE "ok"

\* result of getMessages and getContext on the HTTP client's result h
ReadResult(h) ==
    IF ~h.ok THEN h.cls
    ELSE IF h.status = 404
         THEN NotFound(h.detail, session.userId, "SessionNotFoundError")
    ELSE IF h.status # 200 THEN "RecallrAIError"
    ELSE "ok"

\* faulty variant of the mapping: content is read from the wrong field
MessagesListWrongField(data) ==
    [messages |-> [i \in 1..Len(data.messages) |->
                     [role |-> data.messages[i].role,
                      content |-> data.messages[i].role,
                      timestamp |-> ParseDate(data.messages[i].timestamp)]],
     total |-> data.total,
     hasMore |-> data.has_more]

\* the SessionMessagesList built from response.data
MessagesList(data) ==
    [messages |-> [i \in 1..Len(data.messages) |->
                     [role |-> data.messages[i].role,
                      content |-> data.messages[i].content,
                      timestamp |-> ParseDate(data.messages[i].timestamp)]],
     total |-> data.total,
     hasMore |-> data.has_more]

\* the warning getContext logs for the handle's cached status
ContextWarning(status) ==
    IF status = "processed" THEN {"processed session"}
    ELSE IF status = "processing" THEN {"processing session"}
    ELSE {}

GetMessagesCall(offset, limit) ==
    /\ Send("getMessages", [offset |-> offset, limit |-> limit])
    /\ UNCHANGED <<session, last, script, faults, issued, ordered>>
    /\ SessionFrame

GetMessagesReturn(r, out) ==
    /\ out \in Arrivals(r)
    /\ r.op = "getMessages"
    /\ inflight' = inflight \ {r}
    /\ LET h == Http(out)
           result == ReadResult(h) IN
        /\ last' = Completed(r.op, result)
        /\ fetched' = IF result = "ok" THEN MessagesList(h.body) ELSE fetched
    /\ script' = ScriptNext(r, out)
    /\ faults' = FaultsAfter(r, out)
    /\ UNCHANGED <<session, calls, requests, issued, ordered, warnings>>
    /\ UNCHANGED <<client, target, user, srvUsers, snapshots, srvSession, srvMessages, conflict, srvConflict>>

GetContextCall ==
    /\ Send("getContext", ContextParams)
    /\ UNCHANGED <<session, last, script, faults, issued, ordered>>
    /\ SessionFrame

GetContextReturn(r, out) ==
    /\ out \in Arrivals(r)
    /\ r.op = "getContext"
    /\ inflight' = inflight \ {r}
    /\ LET h == Http(out)
           result == ReadResult(h) IN
        /\ last' = Completed(r.op, result)
        /\ warnings' = IF result = "ok"
                       THEN warnings \cup ContextWarning(session.status)
                       ELSE warnings
        /\ fetched' = IF result = "ok" THEN [context |-> h.body.context]
                                       ELSE fetched
    /\ script' = ScriptNext(r, out)
    /\ faults' = FaultsAfter(r, out)
    /\ UNCHANGED <<session, calls, requests, issued, ordered>>
    /\ UNCHANGED <<client, target, user, srvUsers, snapshots, srvSession, srvMessages, conflict, srvConflict>>

(***************************************************************************)
(* The remote service, as far as a session is concerned.  It holds the     *)
(* authoritative record; processing is asynchronous; a session that is no  *)
(* longer pending accepts neither messages nor a second process request.   *)
(***************************************************************************)
\* the part of a session snapshot a Session handle copies
Snapshot(s) == <<s.status, s.createdAt, s.metadata>>

\* runs that interleave update and refresh record every snapshot sent
SnapshotsAfterServe(r, srv) ==
    IF target = "snapshots" /\ r.op \in {"update", "refresh"}
    THEN snapshots \cup {Snapshot(parseSessionResponse(SessionBody(srv)))}
    ELSE snapshots

ServeSession(r) ==
    /\ r.op \in SessionOps /\ r.st = "sent"
    /\ LET at == srvSession.status IN
       CASE r.op = "addMessage" ->
              IF at = "pending"
              THEN /\ srvMessages' = Append(srvMessages, r.arg)
                   /\ inflight' = (inflight \ {r}) \cup
                        {Answered(r, HttpOutcome(200, NoDetail, NoBody), at)}
                   /\ UNCHANGED srvSession
              ELSE /\ inflight' = (inflight \ {r}) \cup
                        {Answered(r, HttpOutcome(400,
                            <<"Cannot", "add", "message", "to", "session">>,
                            NoBody), at)}
                   /\ UNCHANGED <<srvSession, srvMessages>>
         [] r.op = "process" ->
              IF at = "pending"
              THEN /\ srvSession' = [srvSession EXCEPT !.status = "processing"]
                   /\ inflight' = (inflight \ {r}) \cup
                        {Answered(r, HttpOutcome(200, NoDetail, NoBody), at)}
                   /\ UNCHANGED srvMessages
              ELSE /\ inflight' = (inflight \ {r}) \cup
                        {Answered(r, HttpOutcome(400,
                            <<"Cannot", "process", "session">>, NoBody),
                            at)}
                   /\ UNCHANGED <<srvSession, srvMessages>>
         [] r.op = "update" ->
              /\ srvSession' = [srvSession EXCEPT !.metadata = r.arg]
              /\ inflight' = (inflight \ {r}) \cup
                   {Answered(r, HttpOutcome(200, NoDetail,
                        SessionBody(srvSession')), at)}
              /\ UNCHANGED srvMessages
         [] r.op = "refresh" ->
              /\ inflight' = (inflight \ {r}) \cup
                   {Answered(r, HttpOutcome(200, NoDetail,
                        SessionBody(srvSession)), at)}
              /\ UNCHANGED <<srvSession, srvMessages>>
    /\ snapshots' = SnapshotsAfterServe(r, srvSession')
    /\ UNCHANGED <<client, target, user, srvUsers, session, conflict, srvConflict, calls, faults,
                   requests, last, script, issued, ordered, fetched,
                   warnings>>

\* the message list as the service sends it: the stored messages in
\* arrival order, stamped by the service, cut to the requested page
StoredMessages ==
    [i \in 1..Len(srvMessages) |->
        [role |-> srvMessages[i].role, content |-> srvMessages[i].content,
         timestamp |-> i]]

Page(offset, limit) ==
    LET n == Len(srvMessages)
        hi == IF offset + limit < n THEN offset + limit ELSE n IN
    [messages |-> SubSeq(StoredMessages, offset + 1, hi),
     total |-> n,
     has_more |-> offset + limit < n]

\* the two reads are answered in every status of the session
ServeRead(r) ==
    /\ r.op \in ReadOps /\ r.st = "sent"
    /\ LET at == srvSession.status
           body == IF r.op = "getMessages"
                   THEN Page(r.arg.offset, r.arg.limit)
                   ELSE [context |-> <<"context", "of", Len(srvMessages),
                                       "messages">>] IN
       inflight' = (inflight \ {r}) \cup
                     {Answered(r, HttpOutcome(200, NoDetail, body), at)}
    /\ UNCHANGED <<client, target, user, srvUsers, snapshots, session, srvSession, srvMessages, conflict,
                   srvConflict, calls, faults, requests, last, script, issued,
                   ordered, fetched, warnings>>

\* server-driven transitions of a session: auto-processing after
\* inactivity, completion of processing, failure, balance exhaustion
SessionProgress ==
    /\ target \in {"session", "messages", "legacy", "snapshots"}
    /\ \E to \in SessionStatus :
        /\ \/ srvSession.status = "pending" /\ to \in {"processing", "failed",
                                                       "insufficient_balance"}
           \/ srvSession.status = "processing" /\ to \in {"processed", "failed"}
        /\ srvSession' = [srvSession EXCEPT !.status = to]
    /\ UNCHANGED <<client, target, user, srvUsers, snapshots, session, srvMessages, conflict, srvConflict,
                   inflight, calls, faults, requests, last, script, issued,
                   ordered, fetched, warnings>>

(***************************************************************************)
(* MergeConflict (the variant with the local guard).                       *)
(***************************************************************************)
Undefined == [undefined |-> TRUE]
NullData == [null |-> TRUE]

ClarifyingQuestions ==
    <<[question |-> "q1", options |-> <<"a", "b">>],
      [question |-> "q2", options |-> <<"c", "d">>]>>

Ans(q, a) == [question |-> q, answer |-> a, message |-> "because"]

\* answer lists a caller may pass: complete and valid, one question
\* missing, a question that was never asked, a value that is no option,
\* and nothing at all
AnswerInputs ==
    {<<Ans("q1", "a"), Ans("q2", "c")>>,
     <<Ans("q1", "a")>>,
     <<Ans("q1", "a"), Ans("q2", "c"), Ans("q3", "a")>>,
     <<Ans("q1", "a"), Ans("q2", "z")>>,
     << >>}

\* the snapshot the service sends for a conflict
ConflictBody(c) ==
    [id |-> ConflictId, custom_user_id |-> UserId,
     new_memory_content |-> "new memory",
     conflicting_memories |-> <<[content |-> "old memory", reason |-> "contradicts"]>>,
     clarifying_questions |-> ClarifyingQuestions,
     status |-> c.status, resolution_data |-> c.resolution_data,
     created_at |-> c.created_at, resolved_at |-> c.resolved_at]

\* MergeConflictModel.fromApiResponse; a wire timestamp of 0 is an absent one
fromApiResponse(data) ==
    [id |-> data.id, customUserId |-> data.custom_user_id,
     newMemoryContent |-> data.new_memory_content,
     conflictingMemories |-> data.conflicting_memories,
     clarifyingQuestions |-> data.clarifying_questions,
     status |-> data.status,
     resolutionData |-> data.resolution_data,
     createdAt |-> ParseDate(data.created_at),
     resolvedAt |-> IF data.resolved_at # 0 THEN ParseDate(data.resolved_at)
                                            ELSE Undefined]

\* the constructor copies the model's fields onto the handle
NewMergeConflict(userId, conflictData) ==
    [userId |-> userId, conflictId |-> conflictData.id,
     status |-> conflictData.status,
     newMemoryContent |-> conflictData.newMemoryContent,
     conflictingMemories |-> conflictData.conflictingMemories,
     clarifyingQuestions |-> conflictData.clarifyingQuestions,
     createdAt |-> conflictData.createdAt,
     resolvedAt |-> conflictData.resolvedAt,
     resolutionData |-> conflictData.resolutionData]

\* faulty variant of the guard: FAILED is not treated as terminal
ResolveGuardResolvedOnly(c) == c.status = "RESOLVED"

\* the local guard of resolve()
ResolveGuard(c) == c.status = "RESOLVED" \/ c.status = "FAILED"

\* the request body built from the answers
AnswerData(answers) ==
    [question_answers |->
        [i \in 1..Len(answers) |->
            [question |-> answers[i].question, answer |-> answers[i].answer,
             message |-> answers[i].message]]]

\* faulty variant of resolve: expects 201 as the success status
ResolveResultExpects201(h) ==
    IF ~h.ok THEN h.cls
    ELSE IF h.status = 404
         THEN NotFound(h.detail, conflict.userId, "MergeConflictNotFoundError")
    ELSE IF h.status = 400
         THEN IF Includes(h.detail, <<"already", "resolved">>)
              THEN "MergeConflictAlreadyResolvedError"
              ELSE IF Includes(h.detail, <<"Invalid", "questions", "provided">>)
              THEN "MergeConflictInvalidQuestionsError"
              ELSE IF Includes(h.detail, <<"Missing", "answers", "for", "the",
                                           "following", "questions">>)
              THEN "MergeConflictMissingAnswersError"
              ELSE IF Includes(h.detail, <<"Invalid", "answer">>)
                      /\ Includes(h.detail, <<"for", "question">>)
              THEN "MergeConflictInvalidAnswerError"
              ELSE "RecallrAIError"
    ELSE IF h.status # 201 THEN "RecallrAIError"
    ELSE "ok"

ResolveResult(h) ==
    IF ~h.ok THEN h.cls
    ELSE IF h.status = 404
         THEN NotFound(h.detail, conflict.userId, "MergeConflictNotFoundError")
    ELSE IF h.status = 400
         THEN IF Includes(h.detail, <<"already", "resolved">>)
              THEN "MergeConflictAlreadyResolvedError"
              ELSE IF Includes(h.detail, <<"Invalid", "questions", "provided">>)
              THEN "MergeConflictInvalidQuestionsError"
              ELSE IF Includes(h.detail, <<"Missing", "answers", "for", "the",
                                           "following", "questions">>)
              THEN "MergeConflictMissingAnswersError"
              ELSE IF Includes(h.detail, <<"Invalid", "answer">>)
                      /\ Includes(h.detail, <<"for", "question">>)
              THEN "MergeConflictInvalidAnswerError"
              ELSE "RecallrAIError"
    ELSE IF h.status # 200 THEN "RecallrAIError"
    ELSE "ok"

ConflictRefreshResult(h) ==
    IF ~h.ok THEN h.cls
    ELSE IF h.status = 404
         THEN NotFound(h.detail, conflict.userId, "MergeConflictNotFoundError")
    ELSE IF h.status # 200 THEN "RecallrAIError"
    ELSE "ok"

\* faulty variant of the assignments: resolvedAt and resolutionData are left
ConflictApplyStatusOnly(c, data) ==
    [c EXCEPT !.status = fromApiResponse(data).status]

\* resolve takes status, resolvedAt, resolutionData from the response
ConflictApply(c, data) ==
    LET updatedData == fromApiResponse(data) IN
    [c EXCEPT !.status = updatedData.status,
              !.resolvedAt = updatedData.resolvedAt,
              !.resolutionData = updatedData.resolutionData]

\* faulty variant of refresh: only the status is assigned
ConflictRefreshApplyStatusOnly(c, data) ==
    [c EXCEPT !.status = fromApiResponse(data).status]

\* faulty variant of refresh: the status is left as it was
ConflictRefreshApplyKeepsStatus(c, data) ==
    [c EXCEPT !.resolvedAt = fromApiResponse(data).resolvedAt,
              !.resolutionData = fromApiResponse(data).resolutionData]

\* faulty variant of refresh: a fetched conflict is taken to be resolved
ConflictRefreshApplyAssumesResolved(c, data) ==
    [c EXCEPT !.status = "RESOLVED",
              !.resolvedAt = fromApiResponse(data).resolvedAt,
              !.resolutionData = fromApiResponse(data).resolutionData]

\* faulty variant of refresh: resolvedAt is read from created_at
ConflictRefreshApplyCreatedAt(c, data) ==
    [c EXCEPT !.status = fromApiResponse(data).status,
              !.resolvedAt = fromApiResponse(data).createdAt,
              !.resolutionData = fromApiResponse(data).resolutionData]

\* refresh makes the same three assignments from its own response
ConflictRefreshApply(c, data) ==
    LET updatedData == fromApiResponse(data) IN
    [c EXCEPT !.status = updatedData.status,
              !.resolvedAt = updatedData.resolvedAt,
              !.resolutionData = updatedData.resolutionData]

ConflictFrame == UNCHANGED <<client, target, user, srvUsers, snapshots, session, srvSession, srvMessages,
                             srvConflict, script, issued, ordered, fetched,
                             warnings>>

ResolveCall(answers) ==
    /\ IF ResolveGuard(conflict)
       THEN /\ calls < MaxCalls /\ target = "conflict"
            /\ calls' = calls + 1
            /\ last' = Completed("resolve",
                          "MergeConflictAlreadyResolvedError")
            /\ UNCHANGED <<inflight, requests>>
       ELSE /\ Send("resolve", [answers |-> AnswerData(answers)])
            /\ UNCHANGED last
    /\ UNCHANGED <<conflict, faults>>
    /\ ConflictFrame

ResolveReturn(r, out) ==
    /\ out \in Arrivals(r)
    /\ r.op = "resolve"
    /\ inflight' = inflight \ {r}
    /\ LET h == Http(out)
           result == ResolveResult(h) IN
        /\ last' = Completed(r.op, result)
        /\ conflict' = IF result = "ok" THEN ConflictApply(conflict, h.body)
                                        ELSE conflict
    /\ faults' = FaultsAfter(r, out)
    /\ UNCHANGED <<calls, requests>>
    /\ ConflictFrame

ConflictRefreshCall ==
    /\ Send("conflictRefresh", NoBody)
    /\ UNCHANGED <<conflict, last, faults>>
    /\ ConflictFrame

ConflictRefreshReturn(r, out) ==
    /\ out \in Arrivals(r)
    /\ r.op = "conflictRefresh"
    /\ inflight' = inflight \ {r}
    /\ LET h == Http(out)
           result == ConflictRefreshResult(h) IN
        /\ last' = Completed(r.op, result)
        /\ conflict' = IF result = "ok"
                       THEN ConflictRefreshApply(conflict, h.body)
                       ELSE conflict
    /\ faults' = FaultsAfter(r, out)
    /\ UNCHANGED <<calls, requests>>
    /\ ConflictFrame

(***************************************************************************)
(* The remote service, as far as a conflict is concerned: it validates the *)
(* answers against the clarifying questions and resolves at most once.     *)
(***************************************************************************)
Questions == {ClarifyingQuestions[i].question : i \in 1..Len(ClarifyingQuestions)}

OptionsOf(q) ==
    LET i == CHOOSE j \in 1..Len(ClarifyingQuestions) :
                 ClarifyingQuestions[j].question = q
    IN {ClarifyingQuestions[i].options[k] :
            k \in 1..Len(ClarifyingQuestions[i].options)}

AnswersFor(qa, q) == {i \in 1..Len(qa) : qa[i].question = q}

MissingAnswers(qa) == \E q \in Questions : Cardinality(AnswersFor(qa, q)) # 1
InvalidQuestions(qa) == \E i \in 1..Len(qa) : qa[i].question \notin Questions
InvalidAnswer(qa) ==
    \E i \in 1..Len(qa) :
        qa[i].question \in Questions /\ qa[i].answer \notin OptionsOf(qa[i].question)

\* the service's verdict on a resolution request: a detail message, or << >>
Validate(c, qa) ==
    IF c.status \in {"RESOLVED", "FAILED"}
    THEN <<"Merge", "conflict", "is", "already", "resolved">>
    ELSE IF MissingAnswers(qa)
    THEN <<"Missing", "answers", "for", "the", "following", "questions">>
    ELSE IF InvalidQuestions(qa)
    THEN <<"Invalid", "questions", "provided">>
    ELSE IF InvalidAnswer(qa)
    THEN <<"Invalid", "answer", "for", "question">>
    ELSE << >>

ServeConflict(r) ==
    /\ r.op \in ConflictOps /\ r.st = "sent"
    /\ LET at == srvConflict.status IN
       IF r.op = "resolve"
       THEN LET verdict == Validate(srvConflict, r.arg.answers.question_answers) IN
            IF verdict = << >>
            THEN /\ srvConflict' = [srvConflict EXCEPT
                        !.status = "RESOLVED", !.resolved_at = 2,
                        !.resolution_data = [answers |-> r.arg.answers.question_answers],
                        !.resolutions = @ + 1]
                 /\ inflight' = (inflight \ {r}) \cup
                      {Answered(r, HttpOutcome(200, NoDetail,
                            ConflictBody(srvConflict')), at)}
            ELSE /\ inflight' = (inflight \ {r}) \cup
                      {Answered(r, HttpOutcome(400, verdict, NoBody), at)}
                 /\ UNCHANGED srvConflict
       ELSE /\ inflight' = (inflight \ {r}) \cup
                 {Answered(r, HttpOutcome(200, NoDetail,
                       ConflictBody(srvConflict)), at)}
            /\ UNCHANGED srvConflict
    /\ UNCHANGED <<client, target, user, srvUsers, snapshots, session, srvSession, srvMessages, conflict, calls,
                   faults, requests, last, script, issued, ordered, fetched,
                   warnings>>

\* server-driven transitions of a conflict; RESOLVED here is a resolution
\* that reached the service through another process or channel
ConflictProgress ==
    /\ target = "conflict"
    /\ \E to \in MergeConflictStatus :
        /\ \/ srvConflict.status = "PENDING" /\ to \in {"IN_QUEUE", "FAILED", "RESOLVED"}
           \/ srvConflict.status = "IN_QUEUE" /\ to \in {"RESOLVING", "FAILED"}
           \/ srvConflict.status = "RESOLVING" /\ to \in {"RESOLVED", "FAILED"}
        /\ srvConflict' =
             IF to = "RESOLVED"
             THEN [srvConflict EXCEPT !.status = to, !.resolved_at = 3,
                                      !.resolution_data = [answers |-> << >>],
                                      !.resolutions = @ + 1]
             ELSE [srvConflict EXCEPT !.status = to]
    /\ UNCHANGED <<client, target, user, srvUsers, snapshots, session, srvSession, srvMessages, conflict,
                   inflight, calls, faults, requests, last, script, issued,
                   ordered, fetched, warnings>>

(***************************************************************************)
(* The Session class that keeps no cached status (constructed from a       *)
(* session id).  Its addMessage wraps the request in try/catch and         *)
(* classifies the caught error by error.status; on 400 it awaits           *)
(* getStatus(), a second request, before it throws.                        *)
(***************************************************************************)
\* what leaves the try block: the response, or the error that reaches the
\* catch block (a response whose status is not 200 is thrown as a
\* RecallrAIError carrying httpStatus)
LegacyOutcome(h) ==
    IF h.ok /\ h.status # 200
    THEN Thrown("RecallrAIError", h.status, h.detail)
    ELSE h

\* the values error.status can have: the plain Error of handleError carries
\* it, the typed errors carry httpStatus instead, and an AxiosError carries
\* it or not depending on the axios release installed for ^1.6.0
ErrorStatus(e) ==
    IF e.ok THEN {0}
    ELSE IF e.cls = "Error" THEN {e.status}
    ELSE IF e.cls = "AxiosError" THEN {e.status, 0}
    ELSE {0}

\* the catch block of addMessage and of getStatus, when no request follows
LegacyCatch(e, es) ==
    IF es = 404 THEN NotFound(e.detail, session.userId, "SessionNotFoundError")
    ELSE e.cls

\* the request a pending operation issues after its first one
FollowUp(r, op) ==
    [r EXCEPT !.op = op, !.arg = NoBody, !.st = "sent",
              !.out = FailOutcome("none"), !.srvAt = "none"]

LegacyFrame == UNCHANGED <<client, target, user, srvUsers, snapshots, session, srvSession, srvMessages,
                           conflict, srvConflict, script, issued, ordered,
                           fetched, warnings>>

LegacyAddMessageCall(message, role) ==
    /\ Send("legacyAddMessage", [role |-> role, content |-> message])
    /\ UNCHANGED <<last, faults>>
    /\ LegacyFrame

LegacyAddMessageReturn(r, out) ==
    /\ out \in Arrivals(r)
    /\ r.op = "legacyAddMessage"
    /\ LET e == LegacyOutcome(Http(out)) IN
       \E es \in ErrorStatus(e) :
          IF ~e.ok /\ es = 400
          THEN /\ inflight' = (inflight \ {r}) \cup {FollowUp(r, "getStatus")}
               /\ requests' = requests + 1
               /\ UNCHANGED last
          ELSE /\ inflight' = inflight \ {r}
               /\ last' = Completed(r.op, IF e.ok THEN "ok"
                                                  ELSE LegacyCatch(e, es))
               /\ UNCHANGED requests
    /\ faults' = FaultsAfter(r, out)
    /\ UNCHANGED calls
    /\ LegacyFrame

\* getStatus awaited in the catch block: its own error propagates, its
\* value goes into the InvalidSessionStateError
GetStatusReturn(r, out) ==
    /\ out \in Arrivals(r)
    /\ r.op = "getStatus"
    /\ inflight' = inflight \ {r}
    /\ LET e == LegacyOutcome(Http(out)) IN
       \E es \in ErrorStatus(e) :
          last' = Completed("legacyAddMessage",
                            IF e.ok THEN "InvalidSessionStateError"
                                    ELSE LegacyCatch(e, es))
    /\ faults' = FaultsAfter(r, out)
    /\ UNCHANGED <<calls, requests>>
    /\ LegacyFrame

\* the service on the two endpoints used above
ServeLegacy(r) ==
    /\ r.op \in LegacyOps \cup FollowUpOps /\ r.st = "sent"
    /\ LET at == srvSession.status IN
       IF r.op = "getStatus"
       THEN /\ inflight' = (inflight \ {r}) \cup
                 {Answered(r, HttpOutcome(200, NoDetail, [status |-> at]), at)}
            /\ UNCHANGED srvMessages
       ELSE IF at = "pending"
       THEN /\ srvMessages' = Append(srvMessages, r.arg)
            /\ inflight' = (inflight \ {r}) \cup
                 {Answered(r, HttpOutcome(200, NoDetail, NoBody), at)}
       ELSE /\ inflight' = (inflight \ {r}) \cup
                 {Answered(r, HttpOutcome(400,
                     <<"Cannot", "add", "message", "to", "session">>,
                     NoBody), at)}
            /\ UNCHANGED srvMessages
    /\ UNCHANGED <<client, target, user, srvUsers, snapshots, session, srvSession, conflict, srvConflict,
                   calls, faults, requests, last, script, issued, ordered,
                   fetched, warnings>>

(***************************************************************************)
(* RecallrAI.createUser and User.update.  The User handle is the one the   *)
(* Session handle was created from; update can give the user a new id.     *)
(***************************************************************************)
OtherUserId == "u2"
UserIdInputs == {UserId, OtherUserId}

UserBody(id, metadata) == [user_id |-> id, metadata |-> metadata]

parseUserResponse(data) == [userId |-> data.user_id, metadata |-> data.metadata]

NewUser(userData) == [userId |-> userData.userId, metadata |-> userData.metadata]

\* result of createUser: 409, then anything but 201
CreateUserResult(h) ==
    IF ~h.ok THEN h.cls
    ELSE IF h.status = 409 THEN "UserAlreadyExistsError"
    ELSE IF h.status # 201 THEN "RecallrAIError"
    ELSE "ok"

\* result of User.update: 404, 409, then anything but 200
UserUpdateResult(h) ==
    IF ~h.ok THEN h.cls
    ELSE IF h.status = 404 THEN "UserNotFoundError"
    ELSE IF h.status = 409 THEN "UserAlreadyExistsError"
    ELSE IF h.status # 200 THEN "RecallrAIError"
    ELSE "ok"

\* User.update takes userId and metadata from the response
UserUpdateApply(u, data) ==
    LET updatedData == parseUserResponse(data) IN
    [u EXCEPT !.userId = updatedData.userId, !.metadata = updatedData.metadata]

UserFrame == UNCHANGED <<client, target, session, srvSession, srvMessages,
                         conflict, srvConflict, script, issued, ordered,
                         warnings, snapshots>>

CreateUserCall(userId) ==
    /\ Send("createUser", UserBody(userId, "meta0"))
    /\ UNCHANGED <<user, srvUsers, last, faults, fetched>>
    /\ UserFrame

CreateUserReturn(r, out) ==
    /\ out \in Arrivals(r)
    /\ r.op = "createUser"
    /\ inflight' = inflight \ {r}
    /\ LET h == Http(out)
           result == CreateUserResult(h) IN
        /\ last' = Completed(r.op, result)
        /\ fetched' = IF result = "ok" THEN NewUser(parseUserResponse(h.body))
                                       ELSE fetched
    /\ faults' = FaultsAfter(r, out)
    /\ UNCHANGED <<user, srvUsers, calls, requests>>
    /\ UserFrame

UserUpdateCall(newUserId) ==
    /\ Send("userUpdate", [new_user_id |-> newUserId])
    /\ UNCHANGED <<user, srvUsers, last, faults, fetched>>
    /\ UserFrame

UserUpdateReturn(r, out) ==
    /\ out \in Arrivals(r)
    /\ r.op = "userUpdate"
    /\ inflight' = inflight \ {r}
    /\ LET h == Http(out)
           result == UserUpdateResult(h) IN
        /\ last' = Completed(r.op, result)
        /\ user' = IF result = "ok" THEN UserUpdateApply(user, h.body) ELSE user
    /\ faults' = FaultsAfter(r, out)
    /\ UNCHANGED <<srvUsers, calls, requests, fetched>>
    /\ UserFrame

\* the service's users after user old has been given the id new
Renamed(old, new) ==
    [u \in (DOMAIN srvUsers \ {old}) \cup {new} |->
        IF u = new THEN srvUsers[old] ELSE srvUsers[u]]

\* the service on POST /users and PUT /users/{id}: an id is used once
ServeUser(r) ==
    /\ r.op \in UserOps /\ r.st = "sent"
    /\ IF r.op = "createUser"
       THEN IF r.arg.user_id \in DOMAIN srvUsers
            THEN /\ inflight' = (inflight \ {r}) \cup
                      {Answered(r, HttpOutcome(409,
                          <<"User", r.arg.user_id, "already", "exists">>,
                          NoBody), "none")}
                 /\ UNCHANGED srvUsers
            ELSE /\ srvUsers' = [u \in DOMAIN srvUsers \cup {r.arg.user_id} |->
                                    IF u = r.arg.user_id THEN r.arg.metadata
                                    ELSE srvUsers[u]]
                 /\ inflight' = (inflight \ {r}) \cup
                      {Answered(r, HttpOutcome(201, NoDetail,
                          UserBody(r.arg.user_id, r.arg.metadata)), "none")}
       ELSE IF r.userId \notin DOMAIN srvUsers
            THEN /\ inflight' = (inflight \ {r}) \cup
                      {Answered(r, HttpOutcome(404,
                          <<"User", r.userId, "not", "found">>, NoBody),
                          "none")}
                 /\ UNCHANGED srvUsers
       ELSE IF r.arg.new_user_id \in DOMAIN srvUsers
            THEN /\ inflight' = (inflight \ {r}) \cup
                      {Answered(r, HttpOutcome(409,
                          <<"User", r.arg.new_user_id, "already", "exists">>,
                          NoBody), "none")}
                 /\ UNCHANGED srvUsers
       ELSE /\ srvUsers' = Renamed(r.userId, r.arg.new_user_id)
            /\ inflight' = (inflight \ {r}) \cup
                 {Answered(r, HttpOutcome(200, NoDetail,
                     UserBody(r.arg.new_user_id, srvUsers[r.userId])),
                     "none")}
    /\ UNCHANGED <<client, target, user, session, srvSession, srvMessages,
                   conflict, srvConflict, calls, faults, requests, last,
                   script, issued, ordered, fetched, warnings, snapshots>>

(***************************************************************************)
(* Initial state: a Session handle as createSession returns it and a       *)
(* MergeConflict handle as getMergeConflict returns it, both built from    *)
(* the service's current snapshot, on one of the two HTTP clients.         *)
(***************************************************************************)
NewSession(userId, sessionData) ==
    [userId |-> userId, sessionId |-> sessionData.sessionId,
     status |-> sessionData.status, createdAt |-> sessionData.createdAt,
     metadata |-> sessionData.metadata]

Init ==
    /\ client \in Clients
    /\ target \in {"session", "conflict", "messages", "legacy", "snapshots",
                  "user"}
    /\ \E st \in SessionStatus :
         /\ target # "messages" => st = "pending"
         /\ srvSession = [status |-> st, created_at |-> 1, metadata |-> "meta0"]
    /\ srvMessages = << >>
    /\ session = NewSession(UserId, parseSessionResponse(SessionBody(srvSession)))
    /\ srvConflict = [status |-> "PENDING", created_at |-> 1, resolved_at |-> 0,
                      resolution_data |-> NullData, resolutions |-> 0]
    /\ conflict = NewMergeConflict(UserId, fromApiResponse(ConflictBody(srvConflict)))
    /\ inflight = {}
    /\ calls = 0
    /\ faults = 0
    /\ requests = 0
    /\ last = Completed("none", "none")
    /\ script = 0
    /\ issued = << >>
    /\ ordered = TRUE
    /\ fetched = Undefined
    /\ warnings = {}
    /\ snapshots = {Snapshot(session)}
    /\ user = [userId |-> UserId, metadata |-> "meta0"]
    /\ srvUsers = [u \in {UserId} |-> "meta0"]

NextSession ==
    \/ \E m \in MessageInputs : AddMessageCall(m.role, m.content)
    \/ ProcessCall
    \/ \E md \in MetadataInputs : UpdateCall(md)
    \/ RefreshCall
    \/ \E r \in inflight : \E out \in Arrivals(r) : AddMessageReturn(r, out)
    \/ \E r \in inflight : \E out \in Arrivals(r) : ProcessReturn(r, out)
    \/ \E r \in inflight : \E out \in Arrivals(r) : UpdateReturn(r, out)
    \/ \E r \in inflight : \E out \in Arrivals(r) : RefreshReturn(r, out)
    \/ \E r \in inflight : ServeSession(r)
    \/ SessionProgress

NextConflict ==
    \/ \E a \in AnswerInputs : ResolveCall(a)
    \/ ConflictRefreshCall
    \/ \E r \in inflight : \E out \in Arrivals(r) : ResolveReturn(r, out)
    \/ \E r \in inflight : \E out \in Arrivals(r) : ConflictRefreshReturn(r, out)
    \/ \E r \in inflight : ServeConflict(r)
    \/ ConflictProgress

NextMessages ==
    \/ \E m \in MessageInputs : AddMessageCall(m.role, m.content)
    \/ \E pg \in PageInputs : GetMessagesCall(pg.offset, pg.limit)
    \/ GetContextCall
    \/ \E r \in inflight : \E out \in Arrivals(r) : AddMessageReturn(r, out)
    \/ \E r \in inflight : \E out \in Arrivals(r) : GetMessagesReturn(r, out)
    \/ \E r \in inflight : \E out \in Arrivals(r) : GetContextReturn(r, out)
    \/ \E r \in inflight : ServeSession(r)
    \/ \E r \in inflight : ServeRead(r)
    \/ SessionProgress

NextLegacy ==
    \/ \E m \in MessageInputs : LegacyAddMessageCall(m.content, m.role)
    \/ \E r \in inflight : \E out \in Arrivals(r) : LegacyAddMessageReturn(r, out)
    \/ \E r \in inflight : \E out \in Arrivals(r) : GetStatusReturn(r, out)
    \/ \E r \in inflight : ServeLegacy(r)
    \/ SessionProgress

NextSnapshots ==
    \/ \E md \in MetadataInputs : UpdateCall(md)
    \/ RefreshCall
    \/ \E r \in inflight : \E out \in Arrivals(r) : UpdateReturn(r, out)
    \/ \E r \in inflight : \E out \in Arrivals(r) : RefreshReturn(r, out)
    \/ \E r \in inflight : ServeSession(r)
    \/ SessionProgress

NextUser ==
    \/ \E id \in UserIdInputs : CreateUserCall(id)
    \/ UserUpdateCall(OtherUserId)
    \/ \E m \in MessageInputs : AddMessageCall(m.role, m.content)
    \/ ProcessCall
    \/ \E md \in MetadataInputs : UpdateCall(md)
    \/ RefreshCall
    \/ \E r \in inflight : \E out \in Arrivals(r) : CreateUserReturn(r, out)
    \/ \E r \in inflight : \E out \in Arrivals(r) : UserUpdateReturn(r, out)
    \/ \E r \in inflight : \E out \in Arrivals(r) : AddMessageReturn(r, out)
    \/ \E r \in inflight : \E out \in Arrivals(r) : ProcessReturn(r, out)
    \/ \E r \in inflight : \E out \in Arrivals(r) : UpdateReturn(r, out)
    \/ \E r \in inflight : \E out \in Arrivals(r) : RefreshReturn(r, out)
    \/ \E r \in inflight : ServeUser(r)
    \/ \E r \in inflight : ServeSession(r)

Next ==
    \/ NextSession \/ NextConflict \/ NextMessages \/ NextLegacy
    \/ NextSnapshots \/ NextUser

Spec == Init /\ [][Next]_vars

\* runs that drive the Session handle only, the MergeConflict handle only
InitSession == Init /\ target = "session"

SpecSession == InitSession /\ [][NextSession]_vars

InitConflict == Init /\ target = "conflict"

SpecConflict == InitConflict /\ [][NextConflict]_vars

\* runs that exercise the message list and the context of a session
InitMessages == Init /\ target = "messages"

SpecMessages == InitMessages /\ [][NextMessages]_vars

\* runs that drive the Session class without a cached status
InitLegacy == Init /\ target = "legacy"

SpecLegacy == InitLegacy /\ [][NextLegacy]_vars

\* runs that interleave update and refresh on a Session handle
InitSnapshots == Init /\ target = "snapshots"

SpecSnapshots == InitSnapshots /\ [][NextSnapshots]_vars

\* runs that drive the User handle next to the Session created from it
InitUser == Init /\ target = "user"

SpecUser == InitUser /\ [][NextUser]_vars


(***************************************************************************)
(* Properties.                                                             *)
(***************************************************************************)
\* the step is the continuation of request r on outcome out
Returns(r, out) ==
    \/ AddMessageReturn(r, out)
    \/ ProcessReturn(r, out)
    \/ UpdateReturn(r, out)
    \/ RefreshReturn(r, out)
    \/ ResolveReturn(r, out)
    \/ ConflictRefreshReturn(r, out)
    \/ GetMessagesReturn(r, out)
    \/ GetContextReturn(r, out)
    \/ CreateUserReturn(r, out)
    \/ UserUpdateReturn(r, out)

Terminal == {"RESOLVED", "FAILED"}

\* C1: resolve(answers) on a handle whose cached status is RESOLVED or
\* FAILED fails with MergeConflictAlreadyResolvedError for every answers
\* list, issues no transport request and changes no field of the handle.
C1_LocalGuard ==
    [][\A a \in AnswerInputs :
          (conflict.status \in Terminal /\ ResolveCall(a))
              => /\ last' = Completed("resolve", "MergeConflictAlreadyResolvedError")
                 /\ requests' = requests
                 /\ inflight' = inflight
                 /\ conflict' = conflict]_vars

C1_Witness ==
    /\ conflict.status = "FAILED"
    /\ last = Completed("resolve", "MergeConflictAlreadyResolvedError")
    /\ requests < calls

\* C2: addMessage and process() on a session that the service holds as
\* PROCESSED or FAILED fail with InvalidSessionStateError and leave the
\* handle's status, metadata and createdAt unchanged.
C2_TerminalSessionRejects ==
    [][\A r \in inflight \ inflight' : \A out \in Arrivals(r) :
          (/\ r.srvAt \in {"processed", "failed"}
           /\ ~IsFault(r, out)
           /\ AddMessageReturn(r, out) \/ ProcessReturn(r, out))
              => /\ last'.result = "InvalidSessionStateError"
                 /\ session' = session]_vars

\* C3: on a new (PENDING) session the sequence addMessage(USER, "hello");
\* process(); refresh(); addMessage(...) goes: success, success, refresh
\* yields PROCESSED, InvalidSessionStateError.
C3_Scenario ==
    /\ script = 1 => last = Completed("addMessage", "ok")
    /\ script = 2 => last = Completed("process", "ok")
    /\ script = 3 => last = Completed("refresh", "ok") /\ session.status = "processed"
    /\ script = 4 => last = Completed("addMessage", "InvalidSessionStateError")

\* C4: on a conflict in a non-terminal state, resolve(answers) fails with
\* MergeConflictMissingAnswersError when a clarifying question is left
\* out, MergeConflictInvalidQuestionsError when a question that was never
\* asked is answered, MergeConflictInvalidAnswerError when a value is not
\* among the question's options.
C4_AnswerValidation ==
    [][\A r \in inflight \ inflight' : \A out \in Arrivals(r) :
          (/\ ~IsFault(r, out)
           /\ r.srvAt \notin Terminal /\ r.srvAt # "none"
           /\ ResolveReturn(r, out))
              => LET qa == r.arg.answers.question_answers IN
                 /\ MissingAnswers(qa)
                      => last'.result = "MergeConflictMissingAnswersError"
                 /\ InvalidQuestions(qa)
                      => last'.result = "MergeConflictInvalidQuestionsError"
                 /\ InvalidAnswer(qa)
                      => last'.result = "MergeConflictInvalidAnswerError"]_vars

\* C5: after a successful resolve(answers) the handle has status RESOLVED,
\* resolvedAt set and resolutionData populated, each equal to the value in
\* the service's response to that call.
C5_ResolveAppliesResponse ==
    [][\A r \in inflight \ inflight' : \A out \in Arrivals(r) :
          (last'.result = "ok" /\ ResolveReturn(r, out))
              => /\ conflict'.status = "RESOLVED"
                 /\ conflict'.status = out.body.status
                 /\ conflict'.resolvedAt # Undefined
                 /\ conflict'.resolvedAt = ParseDate(out.body.resolved_at)
                 /\ conflict'.resolutionData \notin {Undefined, NullData}
                 /\ conflict'.resolutionData = out.body.resolution_data]_vars

C5_Witness ==
    /\ last = Completed("resolve", "ok")
    /\ conflict.status = "RESOLVED"
    /\ conflict.resolvedAt = ParseDate(srvConflict.resolved_at)
    /\ conflict.resolutionData = srvConflict.resolution_data

\* C6: a 404 whose message contains the acting user's identifier fails the
\* call with UserNotFoundError; any other 404 fails it with
\* SessionNotFoundError on Session operations and with
\* MergeConflictNotFoundError on MergeConflict operations.
C6_NotFoundDisambiguation ==
    [][\A r \in inflight \ inflight' : \A out \in Arrivals(r) :
          (out.kind = "http" /\ out.status = 404 /\ Returns(r, out))
              => last'.result =
                    IF Includes(out.detail, <<UserId>>) THEN "UserNotFoundError"
                    ELSE IF r.op \in SessionOps THEN "SessionNotFoundError"
                    ELSE "MergeConflictNotFoundError"]_vars

\* C7: a successful refresh() with no operation running concurrently
\* leaves status, createdAt and metadata equal to the snapshot the service
\* returned, and once the handle equals the service's record a further
\* refresh() of that record changes no field.
C7_RefreshRoundTrip ==
    [][\A r \in inflight \ inflight' : \A out \in Arrivals(r) :
          (~r.overlap /\ last'.result = "ok" /\ RefreshReturn(r, out))
              => /\ session'.status = out.body.status
                 /\ session'.createdAt = ParseDate(out.body.created_at)
                 /\ session'.metadata = out.body.metadata
                 /\ (/\ last = Completed("refresh", "ok")
                     /\ out.body = SessionBody(srvSession)
                     /\ session.status = srvSession.status
                     /\ session.createdAt = ParseDate(srvSession.created_at)
                     /\ session.metadata = srvSession.metadata)
                        => session' = session]_vars

C7_Witness ==
    /\ script = 3
    /\ last = Completed("refresh", "ok")
    /\ session.status = "processed"
    /\ srvSession.status = "processed"
    /\ session.metadata = srvSession.metadata

\* C8: when the transport call of a Session or MergeConflict operation
\* times out, the operation fails with TimeoutError and no field of the
\* handle changes.
C8_TimeoutLeavesSnapshot ==
    [][\A r \in inflight \ inflight' : \A out \in Arrivals(r) :
          (out.kind = "timeout" /\ Returns(r, out))
              => /\ last' = Completed(r.op, "TimeoutError")
                 /\ session' = session
                 /\ conflict' = conflict]_vars

C8_Witness ==
    /\ last = Completed("resolve", "TimeoutError")
    /\ srvConflict.status = "RESOLVED"
    /\ conflict.status = "PENDING"

\* C9: every operation that talks to the service either succeeds or fails
\* with an error of the SDK taxonomy, whatever the transport outcome.
C9_TypedErrorsOnly == last.result \in Taxonomy \cup {"ok", "none"}

Rank(st) ==
    CASE st = "pending" -> 0
      [] st = "processing" -> 1
      [] st = "processed" -> 2
      [] OTHER -> 2

Backwards(from, to) ==
    \/ from \in {"processed", "failed"} /\ to # from
    \/ {from, to} \subseteq {"pending", "processing", "processed"}
          /\ Rank(to) < Rank(from)

\* C10 (as claimed): under every interleaving of operations on a Session
\* handle, concurrent refresh() calls included, the handle's status never
\* moves backwards in the order PENDING, PROCESSING, PROCESSED and never
\* leaves PROCESSED or FAILED.
C10_StatusMonotonic == [][~Backwards(session.status, session'.status)]_vars

\* C10 (amended): an operation during which no other operation on the
\* handle was pending never moves the handle's status backwards and never
\* takes it out of PROCESSED or FAILED.
C10_StatusMonotonicSequential ==
    [][\A r \in inflight \ inflight' : \A out \in Arrivals(r) :
          (~r.overlap /\ session'.status # session.status /\ Returns(r, out))
              => ~Backwards(session.status, session'.status)]_vars

C10_Witness ==
    /\ last = Completed("refresh", "ok")
    /\ session.status = "processed"
    /\ inflight = {}
    /\ script = -1

ValidationErrors ==
    {"MergeConflictMissingAnswersError", "MergeConflictInvalidQuestionsError",
     "MergeConflictInvalidAnswerError"}

\* C11: of any number of resolve() calls on one conflict, sequential or
\* concurrent, at most one completes successfully, the resolution is
\* applied on the server at most once, and every other call that the
\* service answers fails with MergeConflictAlreadyResolvedError or with a
\* validation error.
C11_ResolveAtMostOnce ==
    [][\A r \in inflight \ inflight' : \A out \in Arrivals(r) :
          (~IsFault(r, out) /\ ResolveReturn(r, out))
              => /\ srvConflict.resolutions <= 1
                 /\ last'.result = "ok" => r.srvAt \notin Terminal
                 /\ last'.result # "ok"
                      => last'.result \in ValidationErrors
                            \cup {"MergeConflictAlreadyResolvedError"}]_vars

\* C12 (as claimed): once the handle's status is RESOLVED or FAILED, no
\* later step, in any order or interleaving of resolve and refresh,
\* changes its status, resolvedAt or resolutionData.
C12_TerminalHandleImmutable ==
    [][conflict.status \in Terminal
          => /\ conflict'.status = conflict.status
             /\ conflict'.resolvedAt = conflict.resolvedAt
             /\ conflict'.resolutionData = conflict.resolutionData]_vars

\* C12 (amended): a handle whose status is RESOLVED or FAILED is changed
\* only by the return of an operation that overlapped another operation on
\* the handle; operations awaited one at a time leave it as it is.
C12_TerminalHandleImmutableSequential ==
    [][(conflict.status \in Terminal /\ conflict' # conflict)
          => \E r \in inflight \ inflight' : r.overlap]_vars

C12_Witness ==
    /\ conflict.status = "RESOLVED"
    /\ srvConflict.status = "RESOLVED"
    /\ last = Completed("conflictRefresh", "ok")
    /\ inflight = {}
    /\ calls = 3

\* C13: a 400 answer to addMessage or process() fails the call with
\* InvalidSessionStateError whatever the handle's cached status is, the
\* request is sent in every cached status, and the failure leaves the
\* handle unchanged.
C13_ServerIsAuthority ==
    [][/\ \A r \in inflight \ inflight' : \A out \in Arrivals(r) :
            (/\ out.kind = "http" /\ out.status = 400
             /\ AddMessageReturn(r, out) \/ ProcessReturn(r, out))
                => /\ last'.result = "InvalidSessionStateError"
                   /\ session' = session
       /\ (ProcessCall \/ \E m \in MessageInputs :
                              AddMessageCall(m.role, m.content))
            => requests' = requests + 1]_vars

\* the service applied the resolution that request r asked for
Applied(r) == r.st = "done" /\ r.out.kind = "http" /\ r.out.status = 200

Returned(list) ==
    [i \in 1..Len(list.messages) |->
        [role |-> list.messages[i].role, content |-> list.messages[i].content]]

\* C15 (as claimed): after addMessage calls issued one after another, each
\* awaited and successful, getMessages returns exactly those messages,
\* each once, in the order of the calls, with the role and content given.
C15_MessagesInCallOrder ==
    [][\A r \in inflight \ inflight' : \A out \in Arrivals(r) :
          (/\ ordered /\ ~r.overlap /\ last'.result = "ok"
           /\ GetMessagesReturn(r, out))
              => Returned(fetched') = issued]_vars

\* C15 (amended): after such calls, getMessages(offset, limit) returns the
\* messages offset+1 .. offset+limit of the sequence of calls, in the
\* order of the calls, with the role and content given, total equal to
\* the number of calls and hasMore telling whether the sequence goes on;
\* with offset 0 and no more messages than limit (50 by default) these
\* are exactly the messages added.
C15_MessagesInCallOrderPaged ==
    [][\A r \in inflight \ inflight' : \A out \in Arrivals(r) :
          (/\ ordered /\ ~r.overlap /\ last'.result = "ok"
           /\ GetMessagesReturn(r, out))
              => LET n == Len(issued)
                     upto == IF r.arg.offset + r.arg.limit < n
                             THEN r.arg.offset + r.arg.limit ELSE n IN
                 /\ Returned(fetched') = SubSeq(issued, r.arg.offset + 1, upto)
                 /\ fetched'.total = n
                 /\ fetched'.hasMore = (r.arg.offset + r.arg.limit < n)
                 /\ (r.arg.offset = 0 /\ n <= r.arg.limit)
                        => Returned(fetched') = issued]_vars

C15_Witness ==
    /\ ordered
    /\ Len(issued) = 2
    /\ issued[1] # issued[2]
    /\ last = Completed("getMessages", "ok")
    /\ fetched # Undefined
    /\ fetched.total = 2
    /\ Returned(fetched) = issued

\* number of occurrences of message m in the sequence seq
Count(seq, m) == Cardinality({i \in 1..Len(seq) : seq[i] = m})

\* C16: for addMessage calls started concurrently on one handle, the
\* stored order is the order in which the requests arrive at the service,
\* a message is stored at most once for each call that passed it, and a
\* call that succeeds has its message stored; both arrival orders occur.
C16_ConcurrentMessages ==
    [][/\ \A m \in MessageInputs : Count(srvMessages', m) <= Count(issued', m)
       /\ \A r \in inflight \ inflight' :
            /\ \A out \in Arrivals(r) :
                 (last'.result = "ok" /\ AddMessageReturn(r, out))
                     => Count(srvMessages, r.arg) >= 1
            /\ (r.op = "addMessage" /\ srvMessages' # srvMessages)
                 => srvMessages' = Append(srvMessages, r.arg)]_vars

\* two calls started concurrently, both successful, stored in the order
\* opposite to the order of the calls
C16_Witness ==
    /\ calls = 2 /\ faults = 0 /\ inflight = {}
    /\ ~ordered
    /\ Len(issued) = 2
    /\ issued[1] # issued[2]
    /\ srvMessages = <<issued[2], issued[1]>>
    /\ last = Completed("addMessage", "ok")

\* C17: getContext succeeds in every cached status of the handle whenever
\* the response has status 200; a cached status processed or processing
\* only adds a logged warning; getContext changes no field of the handle.
C17_GetContextAnyStatus ==
    [][\A r \in inflight \ inflight' : \A out \in Arrivals(r) :
         (r.op = "getContext" /\ GetContextReturn(r, out))
             => /\ session' = session
                /\ (out.kind = "http" /\ out.status = 200)
                     => /\ last'.result = "ok"
                        /\ fetched' = [context |-> out.body.context]
                        /\ warnings' \ warnings \subseteq
                               ContextWarning(session.status)
                        /\ session.status \in {"processed", "processing"}
                               => ContextWarning(session.status)
                                      \subseteq warnings']_vars

\* getContext has succeeded on a handle whose cached status is processed,
\* and the warning was logged
C17_Witness ==
    /\ last = Completed("getContext", "ok")
    /\ session.status = "processed"
    /\ "processed session" \in warnings
    /\ "context" \in DOMAIN fetched
    /\ inflight = {}

\* C18: update is sent and accepted in every cached status; when it
\* succeeds the handle's metadata becomes the metadata of the response and
\* sessionId, status and createdAt stay as they were; when it fails the
\* handle is unchanged.
C18_UpdateMetadataOnly ==
    [][\A r \in inflight \ inflight' : \A out \in Arrivals(r) :
         (r.op = "update" /\ UpdateReturn(r, out))
             => /\ (out.kind = "http" /\ out.status = 200)
                     => last'.result = "ok"
                /\ last'.result = "ok"
                     => session' = [session EXCEPT
                                       !.metadata = out.body.metadata]
                /\ last'.result # "ok" => session' = session]_vars

\* update has succeeded on a handle whose cached status is processed: the
\* metadata is new, the status is still the cached one
C18_Witness ==
    /\ last = Completed("update", "ok")
    /\ session.status = "processed"
    /\ session.metadata # "meta0"
    /\ session.createdAt = ParseDate(1)
    /\ inflight = {}

\* C19: a successful addMessage and a successful process change no field
\* of the Session handle; in particular the cached status after process is
\* the one before it, whatever the service has done with the session.
C19_WritesLeaveHandle ==
    [][\A r \in inflight \ inflight' : \A out \in Arrivals(r) :
         (/\ r.op \in {"addMessage", "process"}
          /\ last'.result = "ok"
          /\ AddMessageReturn(r, out) \/ ProcessReturn(r, out))
             => session' = session]_vars

\* process has succeeded and the service has moved the session on, while
\* the handle still shows pending
C19_Witness ==
    /\ last = Completed("process", "ok")
    /\ srvSession.status \in {"processing", "processed"}
    /\ session.status = "pending"
    /\ inflight = {}

\* C20: every invocation of an operation makes at most one transport
\* request, whatever its outcome: the requests issued never outnumber the
\* invocations.
C20_OneRequestPerCall == requests <= calls

\* C22: every response with a status in 500..599 makes the operation fail
\* with InternalServerError.
C22_ServerErrors ==
    [][\A r \in inflight \ inflight' : \A out \in Arrivals(r) :
         (/\ out.kind = "http" /\ out.status >= 500 /\ out.status <= 599
          /\ Returns(r, out))
             => last'.result = "InternalServerError"]_vars

\* C23: every response with a status in 200..299 is a success of the
\* operation: no error is raised.
C23_SuccessOn2xx ==
    [][\A r \in inflight \ inflight' : \A out \in Arrivals(r) :
         (/\ out.kind = "http" /\ out.status >= 200 /\ out.status <= 299
          /\ Returns(r, out))
             => last'.result = "ok"]_vars

\* C24: a 422 answer to resolve is refined by its message into
\* MergeConflictInvalidQuestionsError ("questions"),
\* MergeConflictMissingAnswersError ("missing" or "required") or
\* MergeConflictInvalidAnswerError ("invalid" and "answer"); a 422 on any
\* other call gives ValidationError.
C24_Refined422 ==
    [][\A r \in inflight \ inflight' : \A out \in Arrivals(r) :
         (out.kind = "http" /\ out.status = 422 /\ Returns(r, out))
             => IF r.op # "resolve"
                THEN last'.result = "ValidationError"
                ELSE /\ Includes(out.detail, <<"questions">>)
                          => last'.result = "MergeConflictInvalidQuestionsError"
                     /\ (/\ ~Includes(out.detail, <<"questions">>)
                         /\ \/ Includes(out.detail, <<"missing">>)
                            \/ Includes(out.detail, <<"required">>))
                          => last'.result = "MergeConflictMissingAnswersError"]_vars

\* C25: a 429 response makes the operation fail with RateLimitError.
C25_RateLimit ==
    [][\A r \in inflight \ inflight' : \A out \in Arrivals(r) :
         (out.kind = "http" /\ out.status = 429 /\ Returns(r, out))
             => last'.result = "RateLimitError"]_vars

\* C26: on a MergeConflict handle resolvedAt and resolutionData are
\* present only if the handle's status is RESOLVED.
C26_ResolutionOnlyIfResolved ==
    (conflict.resolvedAt # Undefined \/ conflict.resolutionData # NullData)
        => conflict.status = "RESOLVED"

\* the handle holds a resolution: resolve has succeeded and all three
\* fields are set
C26_Witness ==
    /\ last = Completed("resolve", "ok")
    /\ conflict.status = "RESOLVED"
    /\ conflict.resolvedAt = ParseDate(2)
    /\ conflict.resolutionData # NullData

C29_GuardSound ==
    conflict.status \in Terminal => srvConflict.status \in Terminal

\* the guard has rejected a resolve on a handle that learnt of the failure
\* of the conflict through refresh
C29_Witness ==
    /\ last = Completed("resolve", "MergeConflictAlreadyResolvedError")
    /\ conflict.status = "FAILED"
    /\ srvConflict.status = "FAILED"
    /\ requests = 1
    /\ calls = 2

\* C30: under any interleaving of update and refresh on one Session
\* handle, the handle's (status, createdAt, metadata) is the (status,
\* createdAt, metadata) of one single snapshot sent by the service.
C30_SingleSnapshot ==
    target = "snapshots" => Snapshot(session) \in snapshots

\* C21: a 409 response is classified by the call it answers: createUser
\* and User.update fail with UserAlreadyExistsError, MergeConflict.resolve
\* fails with MergeConflictAlreadyResolvedError.
C21_ConflictByContext ==
    [][\A r \in inflight \ inflight' : \A out \in Arrivals(r) :
         (out.kind = "http" /\ out.status = 409 /\ Returns(r, out))
             => /\ r.op \in UserOps => last'.result = "UserAlreadyExistsError"
                /\ r.op = "resolve"
                     => last'.result = "MergeConflictAlreadyResolvedError"]_vars

\* C27: the sessionId of a Session handle and the user id it sends in its
\* requests are those of its construction, whatever is done on the Session
\* and on the User it was created from, a change of the user's id included.
C27_SessionIdentityFixed ==
    /\ session.sessionId = SessionId
    /\ session.userId = UserId
    /\ \A r \in inflight : r.op \in SessionOps => r.userId = UserId

\* the user has been given a new id, and a request of the Session issued
\* afterwards carries the id of the construction
C27_Witness ==
    /\ user.userId = OtherUserId
    /\ OtherUserId \in DOMAIN srvUsers
    /\ session.userId = UserId
    /\ \E r \in inflight : r.op = "refresh" /\ r.st = "sent" /\ r.userId = UserId

====
